---- MODULE Spec2Model ----
(***************************************************************************)
(* Model of fluidSimulation.py: a periodic 2-D fluid whose velocity and    *)
(* venom density are advanced by make_step inside a for loop that records  *)
(* every state in velocity_frames / density_frames, followed by the        *)
(* animation callback that replays the recorded frames.                    *)
(*                                                                         *)
(* Reals are fixed-point integers: one unit of velocity or density is      *)
(* Unit, dt = 1/DtDen, viscosity = 1/ViscDen, positions are counted in     *)
(* 1/SubCell of a cell.  Divisions round towards minus infinity.           *)
(*                                                                         *)
(* The phi library calls are modelled by their contract:                   *)
(*   advect.semi_lagrangian  backtrace by dt * velocity, interpolate       *)
(*   diffuse.implicit        relaxation of (I - viscosity*dt*Lap) x = v    *)
(*   fluid.make_incompressible  pressure solve, gradient subtracted        *)
(*   both solves raise NotConverged when they miss their tolerance         *)
(*   field.at[point].add     adds to the sample at the index of point      *)
(*   math.clip               the phi.math clip the comment on line 77      *)
(*                           describes (element-wise clamp)                *)
(* Line 6 (import math) rebinds the name math to the standard library,     *)
(* which has no clip and whose sin and cos take floats; the model follows  *)
(* the phi.math functions the calls on lines 19 and 78 are written for.    *)
(***************************************************************************)
EXTENDS Integers, Sequences, FiniteSets, TLC

VARIABLES velocity, venom_density, velocity_frames, density_frames,
          i, pc, v, d, den_strength, frame

vars == <<velocity, venom_density, velocity_frames, density_frames,
          i, pc, v, d, den_strength, frame>>

(***************************************************************************)
(* Bounds of the model.                                                    *)
(***************************************************************************)
\* cells per axis (the script uses 25; spacing stays 1 as bounds = 0..GridRes)
GridRes == 3
\* fixed-point resolution: the integer that stands for 1.0
Unit == 1000
\* relaxation sweeps a converged solve has performed
SolverSweeps == 2
\* inputs of the clamp harness range over -MaxMag/2 .. MaxMag/2
MaxMag == 3

(***************************************************************************)
(* Program constants.                                                      *)
(***************************************************************************)
\* num_frames = 100
num_frames == 100
\* dt = 0.05 = 1/20
DtDen == 20
\* viscosity = 0.01 = 1/100
ViscDen == 100
\* venom_source_x = 0.5, venom_source_y = 0.5, counted in half cells
venom_source_x == 1
venom_source_y == 1
\* venom_injection_strength_vel = 0.1, venom_injection_strength_den = 0.5
venom_injection_strength_vel == Unit \div 10
venom_injection_strength_den == Unit \div 2
\* math.clip(d, 0, 1)
clip_lower == 0
clip_upper == Unit

(***************************************************************************)
(* Grid: domain = dict(x=25, y=25, bounds=Box[0:25, 0:25], 'periodic').    *)
(***************************************************************************)
Idx == 0 .. (GridRes - 1)
Cells == Idx \X Idx

\* positions are counted in 1/SubCell of a cell, chosen so that a velocity of
\* k units moves a sample by k sub-cells in one dt
SubCell == DtDen * Unit

Min(a, b) == IF a < b THEN a ELSE b
Max(a, b) == IF a > b THEN a ELSE b

\* index of the sample a world coordinate (in half cells) falls into
NearestIndex(coord2) == coord2 \div 2

SourceCell == <<NearestIndex(venom_source_x), NearestIndex(venom_source_y)>>

\* the central cell of the grid
CentralCell == <<(GridRes - 1) \div 2, (GridRes - 1) \div 2>>

(***************************************************************************)
(* Extrapolation: PERIODIC wraps the index, ZERO yields 0 outside.         *)
(***************************************************************************)
SampleAt(g, a, b, ext) ==
    IF ext = "periodic" THEN g[<<a % GridRes, b % GridRes>>]
    ELSE IF a \in Idx /\ b \in Idx THEN g[<<a, b>>] ELSE 0

\* bilinear interpolation of the samples g at position (px, py)
Interpolate(g, px, py, ext) ==
    LET a0 == px \div SubCell
        fx == px % SubCell
        b0 == py \div SubCell
        fy == py % SubCell
        lo == ((SubCell - fx) * SampleAt(g, a0, b0, ext)
               + fx * SampleAt(g, a0 + 1, b0, ext)) \div SubCell
        hi == ((SubCell - fx) * SampleAt(g, a0, b0 + 1, ext)
               + fx * SampleAt(g, a0 + 1, b0 + 1, ext)) \div SubCell
    IN ((SubCell - fy) * lo + fy * hi) \div SubCell

XComp(u) == [c \in Cells |-> u[c][1]]
YComp(u) == [c \in Cells |-> u[c][2]]

\* the staggered velocity u resampled at the centre of cell c
AtCentre(u, c) ==
    <<(u[c][1] + u[<<(c[1] + 1) % GridRes, c[2]>>][1]) \div 2,
      (u[c][2] + u[<<c[1], (c[2] + 1) % GridRes>>][2]) \div 2>>

\* the staggered velocity u resampled at the x-face and at the y-face of c
AtXFace(u, c) ==
    LET l == (c[1] + GridRes - 1) % GridRes
        t == (c[2] + 1) % GridRes
    IN <<u[c][1],
         (u[<<l, c[2]>>][2] + u[c][2] + u[<<l, t>>][2] + u[<<c[1], t>>][2]) \div 4>>

AtYFace(u, c) ==
    LET r == (c[1] + 1) % GridRes
        b == (c[2] + GridRes - 1) % GridRes
    IN <<(u[<<c[1], b>>][1] + u[c][1] + u[<<r, b>>][1] + u[<<r, c[2]>>][1]) \div 4,
         u[c][2]>>

(***************************************************************************)
(* advect.semi_lagrangian(field, velocity, dt)                             *)
(***************************************************************************)
\* a centred scalar field g (extrapolation ZERO) transported by u
advect_density(g, u) ==
    [c \in Cells |->
        LET w == AtCentre(u, c)
        IN Interpolate(g, c[1] * SubCell - w[1], c[2] * SubCell - w[2], "zero")]

\* a staggered vector field f (extrapolation PERIODIC) transported by u
advect_velocity(f, u) ==
    [c \in Cells |->
        LET wx == AtXFace(u, c)
            wy == AtYFace(u, c)
        IN <<Interpolate(XComp(f), c[1] * SubCell - wx[1],
                         c[2] * SubCell - wx[2], "periodic"),
             Interpolate(YComp(f), c[1] * SubCell - wy[1],
                         c[2] * SubCell - wy[2], "periodic")>>]

(***************************************************************************)
(* diffuse.implicit(v, viscosity, dt): x - viscosity*dt*Laplace(x) = v,    *)
(* relaxed from x = v.                                                     *)
(***************************************************************************)
NeighbourSum(g, c) ==
    SampleAt(g, c[1] + 1, c[2], "periodic")
    + SampleAt(g, c[1] + GridRes - 1, c[2], "periodic")
    + SampleAt(g, c[1], c[2] + 1, "periodic")
    + SampleAt(g, c[1], c[2] + GridRes - 1, "periodic")

\* 1 / (viscosity * dt / spacing^2)
DiffusionDen == DtDen * ViscDen

RECURSIVE DiffuseSweeps(_, _, _)
DiffuseSweeps(g, x, n) ==
    IF n = 0 THEN x
    ELSE DiffuseSweeps(g,
            [c \in Cells |->
                (DiffusionDen * g[c] + NeighbourSum(x, c)) \div (DiffusionDen + 4)],
            n - 1)

diffuse_implicit(u) ==
    LET gx == DiffuseSweeps(XComp(u), XComp(u), SolverSweeps)
        gy == DiffuseSweeps(YComp(u), YComp(u), SolverSweeps)
    IN [c \in Cells |-> <<gx[c], gy[c]>>]

(***************************************************************************)
(* fluid.make_incompressible(v): Laplace(p) = div(v), v - grad(p).         *)
(***************************************************************************)
Divergence(u) ==
    [c \in Cells |->
        (u[<<(c[1] + 1) % GridRes, c[2]>>][1] - u[c][1])
        + (u[<<c[1], (c[2] + 1) % GridRes>>][2] - u[c][2])]

RECURSIVE PressureSweeps(_, _, _)
PressureSweeps(dv, p, n) ==
    IF n = 0 THEN p
    ELSE PressureSweeps(dv,
            [c \in Cells |-> (NeighbourSum(p, c) - dv[c]) \div 4],
            n - 1)

make_incompressible(u) ==
    LET p == PressureSweeps(Divergence(u), [c \in Cells |-> 0], SolverSweeps)
    IN [c \in Cells |->
          <<u[c][1] - (p[c] - p[<<(c[1] + GridRes - 1) % GridRes, c[2]>>]),
            u[c][2] - (p[c] - p[<<c[1], (c[2] + GridRes - 1) % GridRes>>])>>]

(***************************************************************************)
(* Source injection, lines 73-78.                                          *)
(***************************************************************************)
inject_velocity_clamped(u, s) ==
    [c \in Cells |->
        IF c = SourceCell
        THEN <<Min(Unit, u[c][1] + s), Min(Unit, u[c][2] + s)>>
        ELSE u[c]]

\* v.at[venom_source_x, venom_source_y].add((s, s))
inject_velocity(u, s) ==
    [u EXCEPT ![SourceCell] = <<@[1] + s, @[2] + s>>]

\* d.at[venom_source_x, venom_source_y].add(s)
inject_density(g, s) ==
    [g EXCEPT ![SourceCell] = @ + s]

clip_no_upper(g) ==
    [c \in Cells |-> Max(clip_lower, g[c])]

\* math.clip(d, 0, 1)
clip(g) ==
    [c \in Cells |-> Max(clip_lower, Min(clip_upper, g[c]))]

(***************************************************************************)
(* Initial fields, lines 19-24.  The Taylor-Green function is evaluated    *)
(* at the staggered sample points, which lie at half-integer coordinates:  *)
(* sin(2 pi k/2) = 0 and cos(2 pi k/2) = (-1)^k.                           *)
(***************************************************************************)
SinTwoPi(half) == 0
CosTwoPi(half) == IF half % 2 = 0 THEN Unit ELSE 0 - Unit

\* x-component at (a, b + 1/2): sin(2 pi y); y-component at (a + 1/2, b): cos(2 pi x)
InitialVelocity ==
    [c \in Cells |-> <<SinTwoPi(2 * c[2] + 1), CosTwoPi(2 * c[1] + 1)>>]

InitialDensity == [c \in Cells |-> 0]

(***************************************************************************)
(* make_step, lines 53-79: the statements in program order.                *)
(***************************************************************************)
Statements ==
    <<"advect_v", "advect_d", "diffuse", "project",
      "inject_v", "inject_d", "clip", "return">>

StatementIndex(p) == CHOOSE k \in 1 .. Len(Statements) : Statements[k] = p

PhaseAfter_skips_project(p) ==
    IF p = "diffuse" THEN "inject_v" ELSE Statements[StatementIndex(p) + 1]

\* the statement make_step executes after statement p
PhaseAfter(p) == Statements[StatementIndex(p) + 1]

TransportField_prestep == velocity

\* the velocity argument of the density advection on line 55: the local v,
\* which line 54 has already reassigned
TransportField == v

StepAccepted_off_by_one == i <= num_frames

\* for i in range(num_frames): another iteration is started
StepAccepted == i < num_frames

TypeOK ==
    /\ pc \in {"loop", "advect_v", "advect_d", "diffuse", "project", "inject_v",
               "inject_d", "clip", "return", "append_v", "append_d", "done",
               "aborted"}
    /\ i \in 0 .. (num_frames + 1)
    /\ velocity \in [Cells -> Int \X Int]
    /\ venom_density \in [Cells -> Int]
    /\ frame \in Nat

\* the state after line 83
Init ==
    /\ velocity = InitialVelocity
    /\ venom_density = InitialDensity
    /\ velocity_frames = <<InitialVelocity>>
    /\ density_frames = <<InitialDensity>>
    /\ i = 0
    /\ pc = "loop"
    /\ v = InitialVelocity
    /\ d = InitialDensity
    /\ den_strength = venom_injection_strength_den
    /\ frame = 0

\* lines 87-88: the loop starts an iteration and calls make_step(velocity, venom_density)
LoopNext ==
    /\ pc = "loop"
    /\ StepAccepted
    /\ v' = velocity
    /\ d' = venom_density
    /\ pc' = "advect_v"
    /\ UNCHANGED <<velocity, venom_density, velocity_frames, density_frames,
                   i, den_strength, frame>>

\* line 87: range(num_frames) is exhausted, the script goes on to the animation
LoopExit ==
    /\ pc = "loop"
    /\ ~StepAccepted
    /\ pc' = "done"
    /\ UNCHANGED <<velocity, venom_density, velocity_frames, density_frames,
                   i, v, d, den_strength, frame>>

\* line 54: v = advect.semi_lagrangian(v, v, dt=dt)
AdvectVelocity ==
    /\ pc = "advect_v"
    /\ v' = advect_velocity(v, v)
    /\ pc' = PhaseAfter(pc)
    /\ UNCHANGED <<velocity, venom_density, velocity_frames, density_frames,
                   i, d, den_strength, frame>>

\* line 55: d = advect.semi_lagrangian(d, v, dt=dt)
AdvectDensity ==
    /\ pc = "advect_d"
    /\ d' = advect_density(d, TransportField)
    /\ pc' = PhaseAfter(pc)
    /\ UNCHANGED <<velocity, venom_density, velocity_frames, density_frames,
                   i, v, den_strength, frame>>

\* line 58: v = diffuse.implicit(v, viscosity, dt=dt), the solve converged
DiffuseConverged ==
    /\ pc = "diffuse"
    /\ v' = diffuse_implicit(v)
    /\ pc' = PhaseAfter(pc)
    /\ UNCHANGED <<velocity, venom_density, velocity_frames, density_frames,
                   i, d, den_strength, frame>>

\* line 58: the solve raises NotConverged; nothing in make_step or in the loop
\* catches it, the script ends with the traceback
DiffuseNotConverged ==
    /\ pc = "diffuse"
    /\ pc' = "aborted"
    /\ UNCHANGED <<velocity, venom_density, velocity_frames, density_frames,
                   i, v, d, den_strength, frame>>

\* line 63: v = fluid.make_incompressible(v), the pressure solve converged
ProjectConverged ==
    /\ pc = "project"
    /\ v' = make_incompressible(v)
    /\ pc' = PhaseAfter(pc)
    /\ UNCHANGED <<velocity, venom_density, velocity_frames, density_frames,
                   i, d, den_strength, frame>>

\* line 63: the pressure solve raises NotConverged, uncaught
ProjectNotConverged ==
    /\ pc = "project"
    /\ pc' = "aborted"
    /\ UNCHANGED <<velocity, venom_density, velocity_frames, density_frames,
                   i, v, d, den_strength, frame>>

\* line 73
InjectVelocity ==
    /\ pc = "inject_v"
    /\ v' = inject_velocity(v, venom_injection_strength_vel)
    /\ pc' = PhaseAfter(pc)
    /\ UNCHANGED <<velocity, venom_density, velocity_frames, density_frames,
                   i, d, den_strength, frame>>

\* line 76
InjectDensity ==
    /\ pc = "inject_d"
    /\ d' = inject_density(d, den_strength)
    /\ pc' = PhaseAfter(pc)
    /\ UNCHANGED <<velocity, venom_density, velocity_frames, density_frames,
                   i, v, den_strength, frame>>

\* line 78
ClipDensity ==
    /\ pc = "clip"
    /\ d' = clip(d)
    /\ pc' = PhaseAfter(pc)
    /\ UNCHANGED <<velocity, venom_density, velocity_frames, density_frames,
                   i, v, den_strength, frame>>

\* lines 79 and 88: return v, d; velocity, venom_density = make_step(...)
Return ==
    /\ pc = "return"
    /\ velocity' = v
    /\ venom_density' = d
    /\ pc' = "append_v"
    /\ UNCHANGED <<velocity_frames, density_frames, i, v, d, den_strength, frame>>

AppendVelocityFrame_overwrites ==
    /\ pc = "append_v"
    /\ velocity_frames' = [velocity_frames EXCEPT ![Len(velocity_frames)] = velocity]
    /\ pc' = "append_d"
    /\ UNCHANGED <<velocity, venom_density, density_frames, i, v, d,
                   den_strength, frame>>

\* line 89: velocity_frames.append(velocity)
AppendVelocityFrame ==
    /\ pc = "append_v"
    /\ velocity_frames' = Append(velocity_frames, velocity)
    /\ pc' = "append_d"
    /\ UNCHANGED <<velocity, venom_density, density_frames, i, v, d,
                   den_strength, frame>>

\* line 90: density_frames.append(venom_density); the iteration ends
AppendDensityFrame ==
    /\ pc = "append_d"
    /\ density_frames' = Append(density_frames, venom_density)
    /\ i' = i + 1
    /\ pc' = "loop"
    /\ UNCHANGED <<velocity, venom_density, velocity_frames, v, d,
                   den_strength, frame>>

\* lines 116-139: FuncAnimation calls animate(frame) for the recorded frames in
\* turn, over and over; animate only reads velocity_frames[frame] and
\* density_frames[frame]
Animate ==
    /\ pc = "done"
    /\ frame' = (frame + 1) % Len(velocity_frames)
    /\ UNCHANGED <<velocity, venom_density, velocity_frames, density_frames,
                   i, pc, v, d, den_strength>>

Next ==
    \/ LoopNext
    \/ LoopExit
    \/ AdvectVelocity
    \/ AdvectDensity
    \/ DiffuseConverged
    \/ DiffuseNotConverged
    \/ ProjectConverged
    \/ ProjectNotConverged
    \/ InjectVelocity
    \/ InjectDensity
    \/ ClipDensity
    \/ Return
    \/ AppendVelocityFrame
    \/ AppendDensityFrame
    \/ Animate

Spec == Init /\ [][Next]_vars

(***************************************************************************)
(* Harness for the clamp: make_step stands before line 76 with an          *)
(* arbitrary density in hand (one value at the source, one elsewhere) and  *)
(* an arbitrary injection strength, and the script runs on from there.     *)
(***************************************************************************)
Magnitudes == {k * (Unit \div 2) : k \in (0 - MaxMag) .. MaxMag}

InitClamp ==
    /\ velocity = InitialVelocity
    /\ venom_density = InitialDensity
    /\ i = num_frames - 2
    /\ velocity_frames = [k \in 1 .. (num_frames - 1) |-> InitialVelocity]
    /\ density_frames = [k \in 1 .. (num_frames - 1) |-> InitialDensity]
    /\ pc = "inject_d"
    /\ v = InitialVelocity
    /\ \E a, b \in Magnitudes :
          d = [c \in Cells |-> IF c = SourceCell THEN a ELSE b]
    /\ den_strength \in Magnitudes
    /\ frame = 0

SpecClamp == (Init \/ InitClamp) /\ [][Next]_vars

InUnitRange(g) == \A c \in Cells : clip_lower <= g[c] /\ g[c] <= clip_upper

Tabulated(f) == IF f = f THEN f ELSE f

StepVelocity(u) ==
    LET advected == Tabulated(advect_velocity(u, u))
        diffused == Tabulated(diffuse_implicit(advected))
        projected == Tabulated(make_incompressible(diffused))
    IN inject_velocity(projected, venom_injection_strength_vel)

StepDensity(g, u) ==
    LET advected == Tabulated(advect_velocity(u, u))
        transported == Tabulated(advect_density(g, advected))
    IN clip(inject_density(transported, den_strength))

PhaseOrder ==
    {<<"loop", "advect_v">>, <<"advect_v", "advect_d">>, <<"advect_d", "diffuse">>,
     <<"diffuse", "project">>, <<"project", "inject_v">>, <<"inject_v", "inject_d">>,
     <<"inject_d", "clip">>, <<"clip", "return">>, <<"return", "append_v">>,
     <<"append_v", "append_d">>, <<"append_d", "loop">>,
     <<"diffuse", "aborted">>, <<"project", "aborted">>, <<"loop", "done">>}

InsideStep ==
    pc \in {"advect_v", "advect_d", "diffuse", "project", "inject_v", "inject_d",
            "clip", "return"}

\* C2: control passes through the phases of a step in the one order advect
\* velocity, advect density, diffuse, project, inject; the state make_step
\* returns is the composition of the five phases in that order applied to the
\* state the step started from; and nothing is appended to the frame history
\* while the step is inside its phases.
C2_FixedPhaseOrder ==
    /\ [][pc' # pc => <<pc, pc'>> \in PhaseOrder]_vars
    /\ [](pc = "return" =>
            /\ v = StepVelocity(velocity)
            /\ d = StepDensity(venom_density, velocity))
    /\ [](InsideStep =>
            /\ Len(velocity_frames) = i + 1
            /\ Len(density_frames) = i + 1)

\* a step whose phases all changed something has been returned and recorded
C2_Witness ==
    /\ pc = "loop"
    /\ i = 3
    /\ velocity_frames[4] = StepVelocity(velocity_frames[3])
    /\ density_frames[4] = StepDensity(density_frames[3], velocity_frames[3])
    /\ make_incompressible(velocity_frames[3]) # velocity_frames[3]
    /\ diffuse_implicit(velocity_frames[3]) # velocity_frames[3]
    /\ advect_velocity(velocity_frames[3], velocity_frames[3]) # velocity_frames[3]

IsPrefix(s, t) == Len(s) <= Len(t) /\ SubSeq(t, 1, Len(s)) = s

\* C3: the frame history starts as exactly the initial state; between two
\* iterations both histories hold one entry per completed step plus the
\* initial one, the last being the current state; and every change of a
\* history appends one entry and leaves the entries already there as they are.
C3_AppendOnlyHistory ==
    /\ [](/\ velocity_frames[1] = InitialVelocity
          /\ density_frames[1] = InitialDensity)
    /\ [](pc = "loop" =>
            /\ Len(velocity_frames) = i + 1
            /\ Len(density_frames) = i + 1
            /\ velocity_frames[i + 1] = velocity
            /\ density_frames[i + 1] = venom_density)
    /\ [][/\ IsPrefix(velocity_frames, velocity_frames')
          /\ IsPrefix(density_frames, density_frames')
          /\ Len(velocity_frames') <= Len(velocity_frames) + 1
          /\ Len(density_frames') <= Len(density_frames) + 1]_vars

\* the whole run has been recorded, and the recorded states differ
C3_Witness ==
    /\ pc = "loop"
    /\ i = num_frames
    /\ Len(velocity_frames) = num_frames + 1
    /\ Len(density_frames) = num_frames + 1
    /\ velocity_frames[2] # velocity_frames[1]
    /\ velocity_frames[num_frames + 1] # velocity_frames[num_frames]

C5_NonConvergenceNeverAborts == pc # "aborted"

\* C7: the run stops only after exactly num_frames steps.
C7_StopsAfterExactlyN ==
    pc \in {"done", "aborted"} =>
        /\ i = num_frames
        /\ Len(velocity_frames) = num_frames + 1

\* C8: the injection changes the velocity only at the source sample, by
\* exactly (strength, strength) with no cap, and the density injection and
\* the clip leave the velocity alone.
C8_VelocityInjectionUnclamped ==
    [][/\ pc = "inject_v" =>
            /\ v'[SourceCell] = <<v[SourceCell][1] + venom_injection_strength_vel,
                                  v[SourceCell][2] + venom_injection_strength_vel>>
            /\ \A c \in Cells \ {SourceCell} : v'[c] = v[c]
       /\ pc \in {"inject_d", "clip"} => v' = v]_vars

\* after an injection the source velocity is above 1.0 while the density
\* there is held at 1.0
C8_Witness ==
    /\ pc = "return"
    /\ v[SourceCell][1] > clip_upper
    /\ d[SourceCell] = clip_upper

\* C9: when the density advection of a step has run, the density is the
\* pre-step density transported by the velocity the self-advection of the
\* same step produced.
C9_DensityUsesAdvectedVelocity ==
    pc = "diffuse" =>
        /\ v = advect_velocity(velocity, velocity)
        /\ d = advect_density(venom_density, v)

\* a step in which transporting by the pre-step velocity would have given
\* another density
C9_Witness ==
    /\ pc = "diffuse"
    /\ v # velocity
    /\ d # advect_density(venom_density, velocity)

\* C10: the cell whose density the injection changes is the central cell.
C10_SourceCellIsCentral ==
    [][pc = "inject_d" =>
          \A c \in Cells : d'[c] # d[c] => c = CentralCell]_vars

====
